---- MODULE Spec2Model ----
(***************************************************************************)
(* AsyncCaller (src/src/index.ts): an admission queue bounding the number  *)
(* of running tasks, a retry engine around a wrapped operation fn, the     *)
(* default result/error classifier and the retry-delay calculator.         *)
(*                                                                         *)
(* Calls are named by the order of their call() invocation: call c is the  *)
(* c-th invocation of call() on the instance.                              *)
(***************************************************************************)
EXTENDS Integers, Sequences, FiniteSets, TLC

\* ---------------------------------------------------------------- bounds
NumCalls == 3          \* call() invocations in the admission specification
MaxConcurrency == 2    \* options.concurrency ranges over 1..MaxConcurrency
MaxRetriesBound == 1   \* retryOptions.maxRetries ranges over 0..MaxRetriesBound
MaxRetriesDeep == 2    \* the same in the specification of a single call
MaxDenials == 1        \* consumeAsync() answers false at most this often
MaxTryCount == 6       \* completedTryCount inputs of the delay specification
MaxLiveCalls == 2      \* call() invocations in the liveness specification
MaxCandidates == 2     \* candidate fields a classified value has set

\* ------------------------------------------------- defaultRetryOptions
MinDelayInMs == 1000
MaxDelayInMs == 10000
BackoffFactor == 2

\* the reading of new Date().getTime() in calculateRetryDelay
NowMs == 50000

\* ------------------------------------------------------ JavaScript values
\* A raw property value: undefined, a number (NaN apart), or a string of
\* characters.
Undef == [t |-> "undefined", n |-> 0, s |-> <<>>]
NaNv == [t |-> "NaN", n |-> 0, s |-> <<>>]
Num(n) == [t |-> "number", n |-> n, s |-> <<>>]
Str(s) == [t |-> "string", n |-> 0, s |-> s]

Digits == {"0", "1", "2", "3", "4", "5", "6", "7", "8", "9"}
DigitVal(ch) ==
  CASE ch = "0" -> 0 [] ch = "1" -> 1 [] ch = "2" -> 2 [] ch = "3" -> 3
    [] ch = "4" -> 4 [] ch = "5" -> 5 [] ch = "6" -> 6 [] ch = "7" -> 7
    [] ch = "8" -> 8 [] ch = "9" -> 9

RECURSIVE SkipWhite(_)
SkipWhite(s) ==
  IF s # <<>> /\ Head(s) = " " THEN SkipWhite(Tail(s)) ELSE s

RECURSIVE ReadDigits(_, _)
ReadDigits(s, acc) ==
  IF s # <<>> /\ Head(s) \in Digits
    THEN ReadDigits(Tail(s), acc * 10 + DigitVal(Head(s)))
    ELSE acc

\* Number.parseInt(string): leading white space, an optional sign, then the
\* longest run of decimal digits; NaN when there is no digit.
ParseInt(s) ==
  LET t == SkipWhite(s)
      signed == t # <<>> /\ Head(t) \in {"-", "+"}
      u == IF signed THEN Tail(t) ELSE t
  IN IF u = <<>> \/ Head(u) \notin Digits
       THEN NaNv
       ELSE Num((IF signed /\ Head(t) = "-" THEN -1 ELSE 1) * ReadDigits(u, 0))

\* JavaScript truthiness of a raw value (if (x), filter(Boolean)).
Truthy(x) ==
  CASE x.t = "undefined" -> FALSE
    [] x.t = "NaN" -> FALSE
    [] x.t = "number" -> x.n # 0
    [] x.t = "string" -> x.s # <<>>

Min(a, b) == IF a <= b THEN a ELSE b
Max(a, b) == IF a >= b THEN a ELSE b

RECURSIVE Pow(_, _)
Pow(b, e) == IF e <= 0 THEN 1 ELSE b * Pow(b, e - 1)

\* ------------------------------------------------------------- headers
\* A headers value: absent (undefined), or an object whose Retry-After entry
\* is retryAfter (Undef when there is none); date is what Date.parse gives
\* for that entry (NaNv when it is no date).
NoHeaders == [present |-> FALSE, retryAfter |-> Undef, date |-> NaNv]
Headers(ra, d) == [present |-> TRUE, retryAfter |-> ra, date |-> d]
EmptyHeaders == Headers(Undef, NaNv)

\* ------------------------------------------------- calculateDefaultDelay
\* A faulty back-off that forgets Math.min.
CalculateDefaultDelayNoCap(completedTryCount) ==
  MinDelayInMs * Pow(BackoffFactor, completedTryCount - 1)

CalculateDefaultDelay(completedTryCount) ==
  Min(MinDelayInMs * Pow(BackoffFactor, completedTryCount - 1), MaxDelayInMs)

\* --------------------------------------------------- calculateRetryDelay
\* The delay returned, and the argument of forceWaitUntilMilisecondsPassed
\* when it is called (forced).
DelayOnly(d) == [delay |-> d, forced |-> FALSE, forceArg |-> 0]

\* A faulty hint branch that returns the delay without telling the rate gate.
DelayNotForced(d) == DelayOnly(d)

DelayForced(d) == [delay |-> d, forced |-> TRUE, forceArg |-> d]

CalculateRetryDelay(completedTryCount, headers) ==
  IF headers.present
    THEN LET retryAfterHeader == headers.retryAfter IN
         IF Truthy(retryAfterHeader)
           THEN LET parsed == ParseInt(retryAfterHeader.s) IN
                IF parsed.t # "NaN"
                  THEN DelayForced(parsed.n * 1000)
                  ELSE IF headers.date.t = "number" /\ headers.date.n > 0
                         THEN DelayForced(Max(headers.date.n - NowMs, 0))
                         ELSE DelayOnly(CalculateDefaultDelay(completedTryCount))
           ELSE DelayOnly(CalculateDefaultDelay(completedTryCount))
    ELSE DelayOnly(CalculateDefaultDelay(completedTryCount))

\* ------------------------------------------- values fn settles with
\* An arbitrary value: undefined, or an object with the five candidate
\* status locations (status, response.status, statuscode,
\* response.statuscode, code), headers and response.headers. att names the
\* attempt (invocation of fn) that produced it, so that two values are the
\* same exactly when they are the same object.
NoCands == <<Undef, Undef, Undef, Undef, Undef>>
Undefined ==
  [tag |-> "undefined", cands |-> NoCands, headers |-> NoHeaders,
   respHeaders |-> NoHeaders, att |-> 0]
TypeErr ==
  [tag |-> "TypeError", cands |-> NoCands, headers |-> NoHeaders,
   respHeaders |-> NoHeaders, att |-> 0]
Obj(cands, headers, respHeaders, att) ==
  [tag |-> "value", cands |-> cands, headers |-> headers,
   respHeaders |-> respHeaders, att |-> att]
WithStatus(n) == <<Num(n), Undef, Undef, Undef, Undef>>

\* ----------------------------------------- extractStatusCodeProperties
CoerceStatus(status) ==
  IF status.t = "number"
    THEN status
    ELSE IF status.t = "string" /\ ParseInt(status.s).t # "NaN"
           THEN ParseInt(status.s)
           ELSE Undef

ExtractStatusCodeProperties(err) ==
  LET mapped == [i \in 1..Len(err.cands) |-> CoerceStatus(err.cands[i])]
      kept == SelectSeq(mapped, Truthy)
  IN [i \in 1..Len(kept) |-> kept[i].n]

IsClientSideError(errOrResponse) ==
  LET possibleProperties == ExtractStatusCodeProperties(errOrResponse) IN
  \E i \in 1..Len(possibleProperties) :
    possibleProperties[i] >= 400 /\ possibleProperties[i] < 500

IsRateLimitedError(errOrResponse) ==
  LET possibleProperties == ExtractStatusCodeProperties(errOrResponse) IN
  \E i \in 1..Len(possibleProperties) : possibleProperties[i] = 429

\* defaultResponseIdentifier
IdentifyResult(response) ==
  [isRateLimited |-> IsRateLimitedError(response),
   isClientSideError |-> IsClientSideError(response)]

IdentifyError(error) ==
  [isRateLimited |-> IsRateLimitedError(error),
   isClientSideError |-> IsClientSideError(error)]

\* ------------------------------------------------- executeWithRetry
\* One invocation of executeWithRetry is a frame: its arguments, and where
\* it stands: "fn" (waiting for the token or for fn's promise), "then"
\* (inside the then handler: its delay, or the nested executeWithRetry it
\* returned) or "catch" (the same inside the catch handler).
Frame(tryCount, lastResponse, lastError, stage) ==
  [tryCount |-> tryCount, lastResponse |-> lastResponse,
   lastError |-> lastError, stage |-> stage]
NoFrame == Frame(0, Undefined, Undefined, "fn")
NoDelay == DelayOnly(0)

\* What a handler does: return a value, throw a value, or wait d.delay and
\* then return executeWithRetry(fn, next.tryCount, next.lastResponse,
\* next.lastError).
Return(v) == [act |-> "return", v |-> v, d |-> NoDelay, next |-> NoFrame]
Throw(v) == [act |-> "throw", v |-> v, d |-> NoDelay, next |-> NoFrame]
Retry(d, next) == [act |-> "retry", v |-> Undefined, d |-> d, next |-> next]

\* A faulty test that lets attempt maxRetries + 1 schedule a further one.
IsLastTryOffByOne(maxRetries, tryCount) == tryCount = maxRetries + 2

\* tryCount === this._retryOptions.maxRetries + 1
IsLastTry(maxRetries, tryCount) == tryCount = maxRetries + 1

\* tryCount + 1
NextTry(tryCount) == tryCount + 1

\* A faulty then handler that never retries a rate-limited result.
ThenHandlerReturnsAtOnce(maxRetries, f, result) == Return(result)

\* .then(async (result) => ...) of the frame f
ThenHandler(maxRetries, f, result) ==
  IF IsLastTry(maxRetries, f.tryCount)
    THEN Return(result)
    ELSE IF IdentifyResult(result).isRateLimited
           THEN IF result.tag = "undefined"
                  THEN Throw(TypeErr)
                  ELSE Retry(CalculateRetryDelay(f.tryCount, result.headers),
                             Frame(NextTry(f.tryCount), result, f.lastError, "fn"))
           ELSE Return(result)

\* err.headers ?? err.response?.headers
ErrorHeaders(err) ==
  IF err.headers.present THEN err.headers ELSE err.respHeaders

\* A faulty test that gives up on every client-side verdict.
GivesUpOnAnyClientError(verdict) == verdict.isClientSideError

\* A faulty test that lost its negation.
GivesUpIfRateLimited(verdict) ==
  verdict.isClientSideError /\ verdict.isRateLimited

\* the test of the catch handler that gives up at once
GivesUp(verdict) == verdict.isClientSideError /\ ~verdict.isRateLimited

\* A faulty throw of the error carried forward instead of the one caught.
RethrownLastError(f, err) == f.lastError

\* what the catch handler throws for the error err it was given
Rethrown(f, err) == err

\* .catch(async (err) => ...) of the frame f
CatchHandler(maxRetries, f, err) ==
  IF IsLastTry(maxRetries, f.tryCount)
    THEN Throw(Rethrown(f, err))
    ELSE IF GivesUp(IdentifyError(err))
           THEN Throw(Rethrown(f, err))
           ELSE IF err.tag = "undefined"
                  THEN Throw(TypeErr)
                  ELSE Retry(CalculateRetryDelay(f.tryCount, ErrorHeaders(err)),
                             Frame(NextTry(f.tryCount), f.lastResponse, err, "fn"))

\* How the promise of call() goes on after a settlement inside the stack
\* of frames (innermost last): it resolves or rejects with v, or the frame
\* on top of stack waits d.delay before the nested executeWithRetry(next).
Settled(how, v) ==
  [act |-> how, v |-> v, stack |-> <<>>, d |-> NoDelay, next |-> NoFrame]
Waiting(stack, stage, r) ==
  [act |-> "retry", v |-> Undefined,
   stack |-> [stack EXCEPT ![Len(stack)].stage = stage],
   d |-> r.d, next |-> r.next]

Pop(stack) == SubSeq(stack, 1, Len(stack) - 1)
Top(stack) == stack[Len(stack)]

\* A rejection with v reaches the promise chain of the frame on top of
\* stack: its catch handler runs unless the rejection comes out of that
\* catch handler itself, and what the handler throws goes to the frame
\* around it.
RECURSIVE OnRejected(_, _, _)
OnRejected(maxRetries, stack, v) ==
  IF stack = <<>>
    THEN Settled("rejected", v)
    ELSE IF Top(stack).stage = "catch"
           THEN OnRejected(maxRetries, Pop(stack), v)
           ELSE LET r == CatchHandler(maxRetries, Top(stack), v) IN
                IF r.act = "retry"
                  THEN Waiting(stack, "catch", r)
                  ELSE OnRejected(maxRetries, Pop(stack), r.v)

\* fn's promise of the frame on top of stack fulfils with result: a value
\* the then handler returns passes every frame around it unchanged.
OnFulfilled(maxRetries, stack, result) ==
  LET r == ThenHandler(maxRetries, Top(stack), result) IN
  CASE r.act = "return" -> Settled("resolved", r.v)
    [] r.act = "retry" -> Waiting(stack, "then", r)
    [] r.act = "throw" -> OnRejected(maxRetries, stack, r.v)

\* ---------------------------------------------------- processTaskQueue
\* A faulty queue.pop() in its place: the newest entry first.
ShiftNewest(q) == [item |-> q[Len(q)], rest |-> SubSeq(q, 1, Len(q) - 1)]

\* queue.shift()
Shift(q) == [item |-> Head(q), rest |-> Tail(q)]

\* A faulty loop condition that admits one call too many.
HasFreeSlotInclusive(running, concurrency) == running <= concurrency

\* this.runningTasks < this._concurrency
HasFreeSlot(running, concurrency) == running < concurrency

\* The while loop: the running count and the queue it leaves, and the
\* calls whose resolve() it invoked, in order, each with the length of the
\* queue it was shifted from.
RECURSIVE ProcessTaskQueue(_, _, _, _)
ProcessTaskQueue(concurrency, running, q, resolved) ==
  IF HasFreeSlot(running, concurrency) /\ Len(q) > 0
    THEN ProcessTaskQueue(concurrency, running + 1, Shift(q).rest,
                          Append(resolved, [call |-> Shift(q).item,
                                            from |-> Len(q)]))
    ELSE [runningTasks |-> running, queue |-> q, resolved |-> resolved]

\* A faulty finally block that forgets the decrement.
FinallyKeepsSlot(running) == running

\* the finally block of executeAndHandleErrors: this.runningTasks--
FinallyRelease(running) == running - 1

\* A faulty loop that asks once and goes on whatever the answer.
LeavesTokenLoopAlways(granted) == TRUE

\* while (!await this._tokenBucket.consumeAsync());
LeavesTokenLoop(granted) == granted

\* ------------------------------------------------------------- state
VARIABLES
  cfg,           \* options: concurrency, retryOptions.maxRetries; and the
                 \* callers: the number of call() invocations made on the
                 \* instance and the kind of functions they pass; and
                 \* whether grantOrder keeps who admitted each call
  runningTasks,  \* this.runningTasks
  queue,         \* this.queue: the calls whose resolve is queued
  resumeQ,       \* calls whose resolve() was invoked and whose call() has
                 \* not yet gone on past its await, in microtask order
  nextCall,      \* the next call() invocation
  task,          \* per call: where it stands (below)
  grantOrder,    \* the calls in the order their resolve() was invoked,
                 \* each with the length of the queue it was shifted from
                 \* and the caller of processTaskQueue
  denials,       \* how often consumeAsync() answered false
  calc           \* the delay and classifier specifications: input and result

vars ==
  <<cfg, runningTasks, queue, resumeQ, nextCall, task, grantOrder, denials,
    calc>>

Calls == 1..NumCalls

NoSettle == [how |-> "none", v |-> Undefined]

\* pc: "idle" (call() not invoked), "queued", "granted" (resolve() invoked),
\* "token" (awaiting consumeAsync), "inflight" (fn invoked, its promise
\* pending), "delay" (awaiting the setTimeout), "done" (call() settled).
\* stack: the frames of executeWithRetry, innermost last.  next, d: the
\* nested invocation and the delay a handler is waiting for.  tries: the
\* tryCount of every invocation of fn.  tokens: the times consumeAsync()
\* answered true.  waits: the setTimeout delays waited.  forces: the
\* arguments of forceWaitUntilMilisecondsPassed.  released: the times the
\* finally block ran.  log: how each attempt settled, in order.
\* outcome: how call() settled.
InitTask ==
  [pc |-> "idle", stack |-> <<>>, next |-> NoFrame, d |-> NoDelay,
   tries |-> <<>>, tokens |-> 0, waits |-> <<>>, forces |-> <<>>,
   released |-> 0, log |-> <<>>, outcome |-> NoSettle]

NoCalc == [phase |-> "off", completedTryCount |-> 0, headers |-> NoHeaders,
           result |-> NoDelay]

Init ==
  /\ cfg \in [concurrency : 1..MaxConcurrency, maxRetries : 0..MaxRetriesBound,
              numCalls : {NumCalls}, fns : {"basic"}, maxDenials : {0},
              stamped : {FALSE}]
  /\ runningTasks = 0
  /\ queue = <<>>
  /\ resumeQ = <<>>
  /\ nextCall = 1
  /\ task = [c \in Calls |-> InitTask]
  /\ grantOrder = <<>>
  /\ denials = 0
  /\ calc = NoCalc

\* The same, each with the caller of processTaskQueue that invoked it where
\* the specification keeps that history: "call" (the call() that pushed it)
\* or "finally" (a finally block, after the call had waited in the queue).
Stamped(resolved, by) ==
  [i \in 1..Len(resolved) |->
     [call |-> resolved[i].call, from |-> resolved[i].from,
      by |-> IF cfg.stamped THEN by ELSE "any"]]

CallsOf(resolved) == [i \in 1..Len(resolved) |-> resolved[i].call]

\* The task records after resolve() was invoked for the calls of resolved.
Granted(t, resolved) ==
  [c \in Calls |->
     IF \E i \in 1..Len(resolved) : resolved[i].call = c
       THEN [t[c] EXCEPT !.pc = "granted"]
       ELSE t[c]]

\* call(fn), up to its await: queue.push(resolve); processTaskQueue()
Call ==
  /\ nextCall <= cfg.numCalls
  /\ LET c == nextCall
         p == ProcessTaskQueue(cfg.concurrency, runningTasks,
                               Append(queue, c), <<>>)
     IN /\ runningTasks' = p.runningTasks
        /\ queue' = p.queue
        /\ resumeQ' = resumeQ \o CallsOf(p.resolved)
        /\ grantOrder' = grantOrder \o Stamped(p.resolved, "call")
        /\ task' = Granted([task EXCEPT ![c].pc = "queued"], p.resolved)
  /\ nextCall' = nextCall + 1
  /\ UNCHANGED <<cfg, denials, calc>>

\* call() goes on past its await: executeAndHandleErrors(fn) calls
\* executeWithRetry(fn, 1, undefined), which runs up to its await of
\* consumeAsync() and returns its promise; the finally block then runs at
\* once (the promise is returned, not awaited): runningTasks--,
\* processTaskQueue().
ExecuteAndHandleErrors ==
  /\ resumeQ # <<>>
  /\ LET c == Head(resumeQ)
         p == ProcessTaskQueue(cfg.concurrency, FinallyRelease(runningTasks),
                               queue, <<>>)
     IN /\ task[c].pc = "granted"
        /\ runningTasks' = p.runningTasks
        /\ queue' = p.queue
        /\ resumeQ' = Tail(resumeQ) \o CallsOf(p.resolved)
        /\ grantOrder' = grantOrder \o Stamped(p.resolved, "finally")
        /\ task' = Granted(
             [task EXCEPT
                ![c].pc = "token",
                ![c].stack = <<Frame(1, Undefined, Undefined, "fn")>>,
                ![c].released = @ + (runningTasks - FinallyRelease(runningTasks))],
             p.resolved)
  /\ UNCHANGED <<cfg, nextCall, denials, calc>>

\* ------------------------------------------------ what fn may settle with
\* The attempt att of fn fulfils with a 200 response or rejects with a 404
\* error or a plain error;
BasicOutcomes(att) ==
  {[how |-> "resolved", v |-> Obj(WithStatus(200), EmptyHeaders, NoHeaders, att)],
   [how |-> "rejected", v |-> Obj(WithStatus(404), NoHeaders, NoHeaders, att)],
   [how |-> "rejected", v |-> Obj(NoCands, NoHeaders, NoHeaders, att)]}

\* or else it fulfils with a 429 response that carries Retry-After: 2, or
\* rejects with a 429 error whose response carries Retry-After: 5, or with
\* undefined.
MoreOutcomes(att) ==
  {[how |-> "resolved",
    v |-> Obj(WithStatus(429), Headers(Str(<<"2">>), NaNv), NoHeaders, att)],
   [how |-> "rejected",
    v |-> Obj(WithStatus(429), NoHeaders, Headers(Str(<<"5">>), NaNv), att)],
   [how |-> "rejected", v |-> Undefined]}

Outcomes(att) ==
  IF cfg.fns = "basic"
    THEN BasicOutcomes(att)
    ELSE BasicOutcomes(att) \cup MoreOutcomes(att)

\* A faulty handler that calls the next executeWithRetry at once, without
\* the setTimeout.
ApplySkipsDelay(t, r) ==
  IF r.act = "retry"
    THEN [t EXCEPT !.pc = "token", !.stack = Append(r.stack, r.next)]
    ELSE [t EXCEPT !.pc = "done", !.stack = <<>>,
                   !.outcome = [how |-> r.act, v |-> r.v]]

\* The task record of a call whose promise chain goes on as r.
Apply(t, r) ==
  IF r.act = "retry"
    THEN [t EXCEPT !.pc = "delay", !.stack = r.stack, !.d = r.d,
                   !.next = r.next,
                   !.forces = IF r.d.forced THEN Append(@, r.d.forceArg) ELSE @]
    ELSE [t EXCEPT !.pc = "done", !.stack = <<>>,
                   !.outcome = [how |-> r.act, v |-> r.v]]

\* executeWithRetry from the answer of consumeAsync() to the invocation of
\* fn: the loop asks again on false; on true the frame either finds
\* tryCount > maxRetries + 1 and throws lastError or returns lastResponse,
\* or invokes fn().
ConsumeAsync(c) ==
  /\ task[c].pc = "token"
  /\ \E granted \in BOOLEAN :
       /\ ~granted => denials < cfg.maxDenials
       /\ denials' = IF granted THEN denials ELSE denials + 1
       /\ LET t == [task[c] EXCEPT !.tokens = IF granted THEN @ + 1 ELSE @]
              f == Top(t.stack)
          IN task' =
               [task EXCEPT ![c] =
                  IF ~LeavesTokenLoop(granted)
                    THEN t
                    ELSE IF f.tryCount > cfg.maxRetries + 1
                           THEN IF f.lastError.tag # "undefined"
                                  THEN Apply(t, OnRejected(cfg.maxRetries,
                                                           Pop(t.stack), f.lastError))
                                  ELSE Apply(t, Settled("resolved", f.lastResponse))
                           ELSE [t EXCEPT !.pc = "inflight",
                                          !.tries = Append(@, f.tryCount)]]
  /\ UNCHANGED <<cfg, runningTasks, queue, resumeQ, nextCall, grantOrder, calc>>

\* The promise fn() returned settles and the then or catch handler runs.
FnSettles(c) ==
  /\ task[c].pc = "inflight"
  /\ \E o \in Outcomes(Len(task[c].tries)) :
       LET t == [task[c] EXCEPT !.log = Append(@, o)]
           r == IF o.how = "resolved"
                  THEN OnFulfilled(cfg.maxRetries, t.stack, o.v)
                  ELSE OnRejected(cfg.maxRetries, t.stack, o.v)
       IN task' = [task EXCEPT ![c] = Apply(t, r)]
  /\ UNCHANGED <<cfg, runningTasks, queue, resumeQ, nextCall, grantOrder,
                 denials, calc>>

\* The setTimeout of a handler fires: it calls executeWithRetry(fn,
\* tryCount + 1, ...), which runs up to its await of consumeAsync().
TimerFires(c) ==
  /\ task[c].pc = "delay"
  /\ task' = [task EXCEPT ![c].pc = "token",
                          ![c].stack = Append(@, task[c].next),
                          ![c].waits = Append(@, task[c].d.delay),
                          ![c].next = NoFrame,
                          ![c].d = NoDelay]
  /\ UNCHANGED <<cfg, runningTasks, queue, resumeQ, nextCall, grantOrder,
                 denials, calc>>

Next ==
  \/ Call
  \/ ExecuteAndHandleErrors
  \/ \E c \in Calls : ConsumeAsync(c)
  \/ \E c \in Calls : FnSettles(c)
  \/ \E c \in Calls : TimerFires(c)

Spec == Init /\ [][Next]_vars

\* ------------------------------------------ the retry engine on its own
\* One call() on the instance, with any of the functions, a rate gate that
\* may deny, and more retries.
InitRetry ==
  /\ cfg \in [concurrency : {1}, maxRetries : 0..MaxRetriesDeep,
              numCalls : {1}, fns : {"all"}, maxDenials : {MaxDenials},
              stamped : {FALSE}]
  /\ runningTasks = 0
  /\ queue = <<>>
  /\ resumeQ = <<>>
  /\ nextCall = 1
  /\ task = [c \in Calls |-> InitTask]
  /\ grantOrder = <<>>
  /\ denials = 0
  /\ calc = NoCalc

SpecRetry == InitRetry /\ [][Next]_vars


\* -------------------------------------------- calculateRetryDelay on its own
\* Retry-After values: integers of either sign and any size, an integer with
\* a tail, the empty string, text that is no date, HTTP dates after and
\* before now (and before 1970), and a date that begins with its year.
HttpDate == Str(<<"W", "e", "d", ",", " ", "2", "1">>)
DelayHeaders ==
  {NoHeaders, EmptyHeaders,
   Headers(Str(<<"5">>), NaNv),
   Headers(Str(<<"0">>), NaNv),
   Headers(Str(<<"-", "5">>), NaNv),
   Headers(Str(<<"6", "0">>), NaNv),
   Headers(Str(<<" ", "7", "s">>), NaNv),
   Headers(Str(<<>>), NaNv),
   Headers(Str(<<"s", "o", "o", "n">>), NaNv),
   Headers(HttpDate, Num(NowMs + 3000)),
   Headers(HttpDate, Num(NowMs + 60000)),
   Headers(HttpDate, Num(NowMs - 3000)),
   Headers(HttpDate, Num(-86400000)),
   Headers(Str(<<"2", "0", "2", "6", "-", "1", "1">>), Num(NowMs + 3000))}

InitDelay ==
  /\ cfg \in [concurrency : {1}, maxRetries : {0}, numCalls : {0},
              fns : {"basic"}, maxDenials : {0}, stamped : {FALSE}]
  /\ runningTasks = 0
  /\ queue = <<>>
  /\ resumeQ = <<>>
  /\ nextCall = 1
  /\ task = [c \in Calls |-> InitTask]
  /\ grantOrder = <<>>
  /\ denials = 0
  /\ calc \in [phase : {"called"}, completedTryCount : 1..MaxTryCount,
               headers : DelayHeaders, result : {NoDelay}]

\* calculateRetryDelay(completedTryCount, headers) returns
CalculateRetryDelayReturns ==
  /\ calc.phase = "called"
  /\ calc' = [calc EXCEPT
                !.phase = "returned",
                !.result = CalculateRetryDelay(calc.completedTryCount,
                                               calc.headers)]
  /\ UNCHANGED <<cfg, runningTasks, queue, resumeQ, nextCall, task,
                 grantOrder, denials>>

NextDelay == CalculateRetryDelayReturns

SpecDelay == InitDelay /\ [][NextDelay]_vars


\* ----------------------------------------- the default classifier on its own
\* Values a candidate field may hold: numbers, NaN, a value that is neither
\* number nor string, strings of digits (also signed), text, and text that
\* begins with digits.
Other == [t |-> "object", n |-> 0, s |-> <<>>]
RawStatuses ==
  {Num(429), Num(404), Num(500), Num(0), NaNv, Other,
   Str(<<"4", "2", "9">>), Str(<<"4", "0", "4">>), Str(<<"-", "1">>),
   Str(<<"a", "b", "c">>),
   Str(<<"4", "2", "9", " ", "T", "o", "o">>),
   Str(<<"4", "0", "4", "_", "N", "F">>)}

\* the five candidate locations: status, response.status, statuscode,
\* response.statuscode, code
CandidateFields == 1..5

\* objects with at most max of the candidate fields set
CandidateLists(max) ==
  UNION {{[i \in CandidateFields |-> IF i \in P THEN f[i] ELSE Undef] :
            f \in [P -> RawStatuses]} :
         P \in {Q \in SUBSET CandidateFields : Cardinality(Q) <= max}}

ClassifyInputs(max) ==
  {Undefined}
    \cup {Obj(cands, NoHeaders, NoHeaders, 0) : cands \in CandidateLists(max)}

NoVerdict == [isRateLimited |-> FALSE, isClientSideError |-> FALSE]

InitClassify ==
  /\ cfg \in [concurrency : {1}, maxRetries : {0}, numCalls : {0},
              fns : {"basic"}, maxDenials : {0}, stamped : {FALSE}]
  /\ runningTasks = 0
  /\ queue = <<>>
  /\ resumeQ = <<>>
  /\ nextCall = 1
  /\ task = [c \in Calls |-> InitTask]
  /\ grantOrder = <<>>
  /\ denials = 0
  /\ calc \in [phase : {"given"}, value : ClassifyInputs(MaxCandidates),
               verdict : {NoVerdict}]

\* resultIdentifier.identifyError(value) returns
IdentifyErrorReturns ==
  /\ calc.phase = "given"
  /\ calc' = [calc EXCEPT !.phase = "error", !.verdict = IdentifyError(calc.value)]
  /\ UNCHANGED <<cfg, runningTasks, queue, resumeQ, nextCall, task,
                 grantOrder, denials>>

\* resultIdentifier.identifyResult(value) returns
IdentifyResultReturns ==
  /\ calc.phase = "given"
  /\ calc' = [calc EXCEPT !.phase = "result", !.verdict = IdentifyResult(calc.value)]
  /\ UNCHANGED <<cfg, runningTasks, queue, resumeQ, nextCall, task,
                 grantOrder, denials>>

NextClassify == IdentifyErrorReturns \/ IdentifyResultReturns

SpecClassify == InitClassify /\ [][NextClassify]_vars


\* =================================================================== claims
Submitted == 1..(nextCall - 1)
InFlight == {c \in Calls : task[c].pc = "inflight"}
Last(c) == task[c].log[Len(task[c].log)]
Attempts(c) == Len(task[c].tries)

\* a rejection with an error object that the classifier calls neither
\* client-side nor rate-limited
IsGenericRejection(o) ==
  /\ o.how = "rejected"
  /\ o.v.tag = "value"
  /\ ~IdentifyError(o.v).isClientSideError
  /\ ~IdentifyError(o.v).isRateLimited

\* a rejection the classifier calls client-side and not rate-limited
IsClientRejection(o) ==
  /\ o.how = "rejected"
  /\ IdentifyError(o.v).isClientSideError
  /\ ~IdentifyError(o.v).isRateLimited

\* a fulfilment the classifier calls rate-limited
IsRateLimitedResult(o) ==
  /\ o.how = "resolved"
  /\ IdentifyResult(o.v).isRateLimited

\* C1: at no point are more than concurrency wrapped operations in flight
\* (fn invoked, its promise not yet settled).
C1_InFlightWithinConcurrency == Cardinality(InFlight) <= cfg.concurrency

\* C2: admission is FIFO: resolve() is invoked for the calls in the order in
\* which call() pushed them, so a call is granted only after every call
\* pushed before it.
C2_AdmissionFifo ==
  \A i \in 1..Len(grantOrder) : grantOrder[i].call = i

\* C2 witness: three calls were granted in order and one of them was shifted
\* from a queue that held another call behind it.
C2_Witness ==
  /\ Len(grantOrder) = 3
  /\ \E i \in 1..Len(grantOrder) : grantOrder[i].from >= 2

\* C3: within one call the attempt number never decreases and fn is invoked
\* at most maxRetries + 1 times, whatever the attempts settle with.
C3_AttemptsBounded ==
  \A c \in Calls :
    /\ Attempts(c) <= cfg.maxRetries + 1
    /\ \A i \in 1..Attempts(c), j \in 1..Attempts(c) :
         i < j => task[c].tries[i] <= task[c].tries[j]

\* C4: a call whose fn rejects on every attempt with an error that is neither
\* client-side nor rate-limited settles only after exactly maxRetries + 1
\* invocations of fn, and then rejects with the error of the final attempt.
C4_GenericErrorsExhaust ==
  \A c \in Calls :
    (\A i \in 1..Len(task[c].log) : IsGenericRejection(task[c].log[i]))
      => /\ Attempts(c) <= cfg.maxRetries + 1
         /\ task[c].pc = "done"
              => /\ Attempts(c) = cfg.maxRetries + 1
                 /\ Len(task[c].log) = cfg.maxRetries + 1
                 /\ task[c].outcome = [how |-> "rejected", v |-> Last(c).v]

\* C4 witness: a call with maxRetries >= 1 has rejected after its fn rejected
\* every time with such an error.
C4_Witness ==
  \E c \in Calls :
    /\ cfg.maxRetries >= 1
    /\ task[c].pc = "done"
    /\ Len(task[c].log) = cfg.maxRetries + 1
    /\ \A i \in 1..Len(task[c].log) : IsGenericRejection(task[c].log[i])
    /\ task[c].outcome.how = "rejected"

\* C5: with maxRetries >= 1, when the first attempt rejects with an error
\* classified client-side and not rate-limited, fn is invoked exactly once,
\* no delay is waited and no retry is scheduled, and call() rejects with
\* that error.
C5_ClientErrorIsTerminal ==
  \A c \in Calls :
    (cfg.maxRetries >= 1 /\ Len(task[c].log) >= 1
       /\ IsClientRejection(task[c].log[1]))
      => /\ task[c].pc = "done"
         /\ Attempts(c) = 1
         /\ task[c].waits = <<>>
         /\ task[c].outcome = [how |-> "rejected", v |-> task[c].log[1].v]

\* C5 witness: such a call, with maxRetries >= 1.
C5_Witness ==
  \E c \in Calls :
    /\ cfg.maxRetries >= 1
    /\ Len(task[c].log) = 1
    /\ IsClientRejection(task[c].log[1])
    /\ task[c].outcome.how = "rejected"

\* C6: a call whose fn fulfils on every attempt with a rate-limited result
\* settles only after exactly maxRetries + 1 invocations of fn, and then
\* resolves with the result of the last attempt.
C6_RateLimitedResultsExhaust ==
  \A c \in Calls :
    (\A i \in 1..Len(task[c].log) : IsRateLimitedResult(task[c].log[i]))
      => /\ Attempts(c) <= cfg.maxRetries + 1
         /\ task[c].pc = "done"
              => /\ Attempts(c) = cfg.maxRetries + 1
                 /\ Len(task[c].log) = cfg.maxRetries + 1
                 /\ task[c].outcome = [how |-> "resolved", v |-> Last(c).v]

\* C6 witness: a call with maxRetries >= 1 has resolved after its fn fulfilled
\* every time with a rate-limited result.
C6_Witness ==
  \E c \in Calls :
    /\ cfg.maxRetries >= 1
    /\ task[c].pc = "done"
    /\ Len(task[c].log) = cfg.maxRetries + 1
    /\ \A i \in 1..Len(task[c].log) : IsRateLimitedResult(task[c].log[i])
    /\ task[c].outcome.how = "resolved"

\* C7: every invocation of fn, first attempt or retry, follows its own
\* granted token: a call has invoked fn no more often than consumeAsync()
\* answered true for it, and while it waits for a token the count of
\* invocations equals the count of tokens, so a denial invokes nothing.
C7_TokenBeforeEveryAttempt ==
  \A c \in Calls :
    /\ Attempts(c) <= task[c].tokens
    /\ task[c].pc = "token" => Attempts(c) = task[c].tokens

\* C7 witness: the rate gate has denied once, and a call has made a retry,
\* each of its attempts with a token of its own.
C7_Witness ==
  \E c \in Calls :
    /\ denials >= 1
    /\ Attempts(c) >= 2
    /\ Attempts(c) = task[c].tokens

\* C8: every admitted call decrements runningTasks exactly once and the
\* dispatch step runs after it, however the call ends: runningTasks counts
\* the calls granted and not yet released, nothing is queued while a slot is
\* free, and once every submitted call has settled runningTasks is 0 and the
\* queue is empty.
C8_SlotReleasedExactlyOnce ==
  /\ \A c \in Calls :
       /\ task[c].pc \in {"idle", "queued", "granted"} => task[c].released = 0
       /\ task[c].pc \in {"token", "inflight", "delay", "done"}
            => task[c].released = 1
  /\ runningTasks = Cardinality({c \in Calls : task[c].pc = "granted"})
  /\ Len(queue) > 0 => runningTasks = cfg.concurrency
  /\ (\A c \in Submitted : task[c].pc = "done")
       => runningTasks = 0 /\ queue = <<>>

\* C8 witness: three calls have settled, one by success, one by a terminal
\* client-side failure and one by exhausting its retries.
C8_Witness ==
  /\ nextCall = 4
  /\ cfg.maxRetries >= 1
  /\ \A c \in Submitted : task[c].pc = "done"
  /\ \E c \in Submitted : task[c].outcome.how = "resolved"
  /\ \E c \in Submitted :
       Len(task[c].log) = 1 /\ IsClientRejection(task[c].log[1])
  /\ \E c \in Submitted :
       /\ Len(task[c].log) = cfg.maxRetries + 1
       /\ IsGenericRejection(Last(c))
  /\ runningTasks = 0

\* C9: whenever call() rejects, it rejects with the very value with which
\* the most recent attempt of its fn rejected.
C9_RejectsWithLastRejection ==
  \A c \in Calls :
    task[c].outcome.how = "rejected"
      => /\ Len(task[c].log) >= 1
         /\ Last(c).how = "rejected"
         /\ task[c].outcome.v = Last(c).v

\* C10: every delay calculateRetryDelay returns lies in [0, maxDelayInMs].
C10_DelayWithinBounds ==
  calc.phase = "returned"
    => calc.result.delay >= 0 /\ calc.result.delay <= MaxDelayInMs

\* The back-off delays of the default options, written out: 1000, 2000,
\* 4000, 8000, and 10000 from the fifth completed attempt on.
DefaultBackoff(n) ==
  CASE n = 1 -> 1000 [] n = 2 -> 2000 [] n = 3 -> 4000 [] n = 4 -> 8000
    [] n >= 5 -> 10000

\* headers that are absent, or carry no Retry-After value, or one that reads
\* neither as an integer nor as a date
HasNoUsableHint(headers) ==
  \/ ~headers.present
  \/ headers.retryAfter.t = "undefined"
  \/ /\ headers.retryAfter.t = "string"
     /\ headers.retryAfter.s # <<>>
     /\ Head(headers.retryAfter.s) \notin Digits \cup {"-", "+", " "}
     /\ headers.date.t = "NaN"

\* C11: without headers, without a Retry-After hint, or with a hint that is
\* neither an integer nor a date, the delay for completed-attempt count n is
\* min(minDelayInMs * backoffFactor^(n-1), maxDelayInMs), that is 1000,
\* 2000, 4000, 8000 and then 10000 with the default options, and
\* forceWaitUntilMilisecondsPassed is not called.
C11_DefaultBackoffWithoutHint ==
  (calc.phase = "returned" /\ HasNoUsableHint(calc.headers))
    => /\ calc.result.delay = DefaultBackoff(calc.completedTryCount)
       /\ ~calc.result.forced

\* C11 witness: an unparseable hint after the fifth attempt gave the capped
\* delay.
C11_Witness ==
  /\ calc.phase = "returned"
  /\ calc.headers.present
  /\ calc.headers.retryAfter.t = "string"
  /\ HasNoUsableHint(calc.headers)
  /\ calc.completedTryCount = 5
  /\ calc.result.delay = 10000

\* The seconds of the integer Retry-After hint in the headers the handlers
\* read from the value v an attempt settled with (result.headers; err.headers
\* or else err.response.headers), 0 when they carry none.  The values fn
\* settles with carry "2" or "5".
HintSeconds(o) ==
  LET h == IF o.how = "resolved" \/ o.v.headers.present
             THEN o.v.headers
             ELSE o.v.respHeaders
  IN CASE h.present /\ h.retryAfter = Str(<<"5">>) -> 5
       [] h.present /\ h.retryAfter = Str(<<"2">>) -> 2
       [] OTHER -> 0

RateLimitedRejectionBeforeLast(c) ==
  /\ Len(task[c].log) >= 1
  /\ Attempts(c) = Len(task[c].log)
  /\ task[c].tries[Attempts(c)] < cfg.maxRetries + 1
  /\ Last(c).how = "rejected"
  /\ IdentifyError(Last(c).v).isRateLimited

\* C13: rate-limited takes precedence over do-not-retry: after a rejection
\* before the last permitted attempt whose verdict is rate-limited, also
\* when it is client-side as well (status 429), call() has not settled: the
\* call waits its delay or, the delay waited, the token of a further attempt.
C13_RateLimitedRejectionRetried ==
  \A c \in Calls :
    RateLimitedRejectionBeforeLast(c)
      => /\ task[c].pc \in {"delay", "token"}
         /\ task[c].outcome = NoSettle
         /\ task[c].pc = "token" => Len(task[c].waits) = Len(task[c].log)

\* C13 witness: a status-429 error, rate-limited and client-side at once,
\* rejected a first attempt and the call is about to make a further one.
C13_Witness ==
  \E c \in Calls :
    /\ RateLimitedRejectionBeforeLast(c)
    /\ IdentifyError(Last(c).v).isClientSideError
    /\ Len(task[c].log) = 1
    /\ task[c].pc = "token"

\* ------------------------------------------------------------- liveness
\* The scheduling the claim assumes: a resolved await goes on, the rate gate
\* answers (and, its denials being bounded, grants), every fn() settles and
\* every timer fires.  Nothing obliges a caller to invoke call().
Fairness ==
  /\ WF_vars(ExecuteAndHandleErrors)
  /\ \A c \in Calls : WF_vars(ConsumeAsync(c))
  /\ \A c \in Calls : WF_vars(FnSettles(c))
  /\ \A c \in Calls : WF_vars(TimerFires(c))

\* MaxLiveCalls calls of basic functions that are retried once, a rate gate
\* that denies once, and the history of who admitted each call.
InitLive ==
  /\ cfg \in [concurrency : 1..MaxConcurrency, maxRetries : {1},
              numCalls : {MaxLiveCalls}, fns : {"basic"}, maxDenials : {1},
              stamped : {TRUE}]
  /\ runningTasks = 0
  /\ queue = <<>>
  /\ resumeQ = <<>>
  /\ nextCall = 1
  /\ task = [c \in Calls |-> InitTask]
  /\ grantOrder = <<>>
  /\ denials = 0
  /\ calc = NoCalc

SpecLive == InitLive /\ [][Next]_vars /\ Fairness

\* C14: under that scheduling every submitted call is eventually admitted
\* and its call() promise eventually settles.
C14_EverySubmittedCallSettles ==
  \A c \in Calls :
    (task[c].pc = "queued" \/ task[c].pc = "granted")
      ~> (task[c].pc = "done" /\ task[c].outcome.how \in {"resolved", "rejected"})

\* C14 witness: with concurrency 1 every call has settled, one of them
\* after it waited in the queue for a finally block to admit it, one after a
\* retry, and the rate gate denied once.
C14_Witness ==
  /\ cfg.concurrency = 1
  /\ nextCall > cfg.numCalls
  /\ \A c \in Submitted : task[c].pc = "done"
  /\ \E i \in 1..Len(grantOrder) : grantOrder[i].by = "finally"
  /\ \E c \in Submitted : task[c].waits # <<>>
  /\ denials >= 1

\* the calls admitted (resolve() invoked, runningTasks incremented for them)
\* whose call() promise has not settled
AdmittedUnsettled ==
  {c \in Calls : task[c].pc \in {"granted", "token", "inflight", "delay"}}

\* C15: a call holds its admission slot for its whole execution: runningTasks
\* is at least the number of admitted calls that have not yet settled, and a
\* call's slot is released only once the call has reached its outcome.
C15_SlotHeldUntilSettled ==
  /\ runningTasks >= Cardinality(AdmittedUnsettled)
  /\ \A c \in Calls : task[c].released >= 1 => task[c].pc = "done"

\* the attempts of call c that rejected, and the last of them
RejectedAttempts(c) ==
  {i \in 1..Len(task[c].log) : task[c].log[i].how = "rejected"}

LastRejected(c) ==
  task[c].log[CHOOSE i \in RejectedAttempts(c) :
                \A j \in RejectedAttempts(c) : j <= i]

\* call c has ended on attempt maxRetries + 1 without success: that attempt
\* rejected or fulfilled with a rate-limited result
EndedExhausted(c) ==
  /\ task[c].pc = "done"
  /\ task[c].tries # <<>>
  /\ task[c].tries[Len(task[c].tries)] = cfg.maxRetries + 1
  /\ Last(c).how = "rejected" \/ IsRateLimitedResult(Last(c))

\* C16: when a call ends because attempt maxRetries + 1 was used up without
\* success, call() rejects with the last observed error if any attempt
\* rejected (with an error object), and resolves with the last rate-limited
\* result only when no attempt rejected.
C16_ExhaustedPrefersLastError ==
  \A c \in Submitted :
    (/\ EndedExhausted(c)
     /\ \A i \in RejectedAttempts(c) : task[c].log[i].v.tag = "value")
      => IF RejectedAttempts(c) # {}
           THEN task[c].outcome = [how |-> "rejected", v |-> LastRejected(c).v]
           ELSE task[c].outcome = [how |-> "resolved", v |-> Last(c).v]

\* C17: attempts of one call never overlap and are separated by one delay
\* wait followed by one token acquisition: fn is invoked only when every
\* earlier invocation has settled; while it is in flight, and after it has
\* settled, the call has waited one delay and taken one token per earlier
\* attempt; a retry's delay is waited before its token is asked for.
C17_AttemptsSequential ==
  \A c \in Calls :
    LET n == Attempts(c)
        settled == Len(task[c].log)
        waited == Len(task[c].waits)
    IN /\ settled <= n /\ n <= settled + 1
       /\ task[c].pc = "inflight"
            => settled = n - 1 /\ waited = n - 1 /\ task[c].tokens = n
       /\ task[c].pc = "delay"
            => settled = n /\ waited = n - 1 /\ task[c].tokens = n
       /\ (task[c].pc = "token" /\ n >= 1)
            => settled = n /\ waited = n /\ task[c].tokens = n
       /\ task[c].pc = "done"
            => settled = n /\ waited = n - 1 /\ task[c].tokens = n

\* C17 witness: a third attempt is in flight, two attempts settled and two
\* delays waited before it.
C17_Witness ==
  \E c \in Calls :
    /\ task[c].pc = "inflight"
    /\ Attempts(c) = 3
    /\ Len(task[c].log) = 2
    /\ Len(task[c].waits) = 2

\* C19: after any sequence of submissions and completions the running count
\* satisfies 0 <= runningTasks <= concurrency.
C19_RunningTasksInRange ==
  /\ 0 <= runningTasks
  /\ runningTasks <= cfg.concurrency

\* C19 witness: after a completion every slot is taken again and a further
\* submission waits in the queue.
C19_Witness ==
  /\ runningTasks = cfg.concurrency
  /\ Len(queue) >= 1
  /\ \E c \in Submitted : task[c].released >= 1

\* the frames of executeWithRetry a call has entered or is about to enter
FramesOf(c) ==
  {task[c].stack[i] : i \in 1..Len(task[c].stack)}
    \cup (IF task[c].pc = "delay" THEN {task[c].next} ELSE {})

\* C20: in every invocation of executeWithRetry reachable from call() the
\* attempt number satisfies 1 <= tryCount <= maxRetries + 1, so the branch
\* guarded by tryCount > maxRetries + 1 is never taken: every token a call
\* was granted was followed by an invocation of fn.
C20_TryCountInRange ==
  \A c \in Calls :
    /\ \A f \in FramesOf(c) :
         1 <= f.tryCount /\ f.tryCount <= cfg.maxRetries + 1
    /\ \A i \in 1..Attempts(c) :
         1 <= task[c].tries[i] /\ task[c].tries[i] <= cfg.maxRetries + 1
    /\ task[c].pc # "token" => task[c].tokens = Attempts(c)

\* C20 witness: the last permitted attempt, a retry, has settled and ended
\* the call, every executeWithRetry frame having run fn.
C20_Witness ==
  \E c \in Calls :
    /\ cfg.maxRetries >= 1
    /\ task[c].pc = "done"
    /\ task[c].tries[Attempts(c)] = cfg.maxRetries + 1
    /\ task[c].tokens = Attempts(c)

\* What the claim calls numeric, stated apart from the coercion of
\* extractStatusCodeProperties.  A string that is a decimal integer: an
\* optional sign and digits, nothing else.
IsNumericString(s) ==
  LET u == IF s # <<>> /\ Head(s) \in {"-", "+"} THEN Tail(s) ELSE s
  IN u # <<>> /\ \A i \in 1..Len(u) : u[i] \in Digits

\* a candidate that is a number or a numeric string, and its value
IsNumericCandidate(x) ==
  x.t = "number" \/ (x.t = "string" /\ IsNumericString(x.s))

NumericValue(x) ==
  IF x.t = "number"
    THEN x.n
    ELSE IF Head(x.s) = "-" THEN 0 - ReadDigits(Tail(x.s), 0)
         ELSE IF Head(x.s) = "+" THEN ReadDigits(Tail(x.s), 0)
         ELSE ReadDigits(x.s, 0)

NumericCandidates(v) ==
  {NumericValue(v.cands[i]) :
     i \in {j \in 1..Len(v.cands) : IsNumericCandidate(v.cands[j])}}

\* C18: the default classifier says rate-limited exactly when some numeric
\* candidate (a number or a numeric string) equals 429, and client-side
\* exactly when some numeric candidate c has 400 <= c < 500; candidates that
\* are not numeric, or missing, are ignored.
C18_ClassifierReadsNumericCandidates ==
  calc.phase \in {"error", "result"}
    => /\ calc.verdict.isRateLimited
            <=> (\E n \in NumericCandidates(calc.value) : n = 429)
       /\ calc.verdict.isClientSideError
            <=> (\E n \in NumericCandidates(calc.value) : 400 <= n /\ n < 500)

====
